---- MODULE Spec2Model ----
(***************************************************************************)
(* Model of the gitflow command line tool (src/src/GitFlow.js, the CLI     *)
(* entry point src/unnamed/part_000 and src/src/utils.js).                 *)
(*                                                                         *)
(* One CLI invocation is one process: it constructs a GitFlow object with  *)
(* an empty command queue, runs one operation that queries the repository  *)
(* and appends commands to the queue, and finally runs the queue.          *)
(* Strings are sequences of one-character strings, so that concatenation   *)
(* and character tests are computed, and a command is a record.            *)
(***************************************************************************)
EXTENDS Integers, Sequences, FiniteSets, TLC

\* ------------------------------------------------------------------ bounds
\* The number of times the tool is run.
MaxRuns == 2

\* The longest branch name and the longest version the validations are given.
MaxNameLen == 3
MaxVersionLen == 6

\* ----------------------------------------------------------------- strings
Digits == {"0", "1", "2", "3", "4", "5", "6", "7", "8", "9"}
NonZeroDigits == Digits \ {"0"}
Letters == {"a", "b", "c", "d", "e", "f", "g", "h", "i", "j", "k", "l", "m",
            "n", "o", "p", "q", "r", "s", "t", "u", "v", "w", "x", "y", "z",
            "A", "B", "C", "D", "E", "F", "G", "H", "I", "J", "K", "L", "M",
            "N", "O", "P", "Q", "R", "S", "T", "U", "V", "W", "X", "Y", "Z"}

\* The characters the class [a-zA-Z0-9-_./] of invalidChars admits.
BranchChars == Letters \cup Digits \cup {"-", "_", ".", "/"}

\* A JavaScript value: a string or a boolean.
JsString(s) == [t |-> "string", s |-> s, b |-> FALSE]
JsBoolean(b) == [t |-> "boolean", s |-> <<>>, b |-> b]

\* What a template literal `${v}` makes of a value.
TemplateString(v) ==
  IF v.t = "boolean"
    THEN (IF v.b THEN <<"t", "r", "u", "e">> ELSE <<"f", "a", "l", "s", "e">>)
    ELSE v.s

\* ---------------------------------------------------------- configuration
MainName == <<"m", "a", "i", "n">>
DevelopName == <<"d", "e", "v", "e", "l", "o", "p">>
StagingName == <<"s", "t", "a", "g", "i", "n", "g">>

GitflowConfigName == <<"g", "i", "t", "f", "l", "o", "w", "-", "c", "o", "n", "f", "i", "g">>

\* The value of a field the configuration does not have.
Undefined == <<"undefined">>

DefaultPrefixes ==
  [feature |-> <<"f", "e", "a", "t", "u", "r", "e", "/">>,
   release |-> <<"r", "e", "l", "e", "a", "s", "e", "/">>,
   bugfix |-> <<"b", "u", "g", "f", "i", "x", "/">>,
   hotfix |-> <<"h", "o", "t", "f", "i", "x", "/">>]

\* #defaultConfig: it has no stagingBranch.
DefaultConfig ==
  [mainBranch |-> MainName,
   developBranch |-> DevelopName,
   useStaging |-> FALSE,
   stagingBranch |-> Undefined,
   pushBranches |-> TRUE,
   createBranches |-> FALSE,
   debug |-> FALSE,
   prefixes |-> DefaultPrefixes]

\* A configuration file that sets the three switches the operations read,
\* and the staging branch with useStaging.
ConfigOf(useStaging, pushBranches, debug) ==
  [DefaultConfig EXCEPT !.useStaging = useStaging,
                        !.stagingBranch = IF useStaging THEN StagingName ELSE Undefined,
                        !.pushBranches = pushBranches,
                        !.debug = debug]

Kinds == {"feature", "release", "bugfix", "hotfix"}

\* The keys of a configuration object.
ConfigKeys == DOMAIN DefaultConfig

\* { ...a, ...b } for an object b that has the keys `keys`: a shallow merge,
\* the values of b win.
Spread(a, keys, b) == [k \in ConfigKeys |-> IF k \in keys THEN b[k] ELSE a[k]]

\* The configuration file: whether it exists, the keys of the object it
\* holds and their values (the defaults stand under the keys it has not).
NoFile == [exists |-> FALSE, keys |-> {}, value |-> DefaultConfig]

\* JSON.stringify(object) written to the file: a key whose value is
\* undefined is left out.
Stringify(object) ==
  [exists |-> TRUE,
   keys |-> {k \in ConfigKeys : k = "stagingBranch" => object[k] # Undefined},
   value |-> object]

\* Mutant: { ...JSON.parse(file), ...#defaultConfig }, the defaults win.
LoadConfigUnderDefaults(file) == Spread(file.value, ConfigKeys, DefaultConfig)

\* { ...#defaultConfig, ...JSON.parse(file) } of loadConfig.
LoadConfig(file) == Spread(DefaultConfig, file.keys, file.value)

\* A file written by hand that switches useStaging on and names no branch.
StagingOnlyFile ==
  [exists |-> TRUE,
   keys |-> {"useStaging"},
   value |-> [DefaultConfig EXCEPT !.useStaging = TRUE]]

\* ------------------------------------------------------------- validation
\* versionRegex.test(version): ^(0|[1-9]\d*)\.(0|[1-9]\d*)\.(0|[1-9]\d*)$
\* Mutant: \d+ for every part, which admits leading zeros.
IsNumberPartOfDigits(s) ==
  /\ Len(s) >= 1
  /\ \A i \in 1..Len(s) : s[i] \in Digits

IsNumberPart(s) ==
  /\ Len(s) >= 1
  /\ \A i \in 1..Len(s) : s[i] \in Digits
  /\ (s[1] = "0" => Len(s) = 1)

validateVersion(version) ==
  \E i, j \in 1..Len(version) :
    /\ i < j
    /\ version[i] = "."
    /\ version[j] = "."
    /\ IsNumberPart(SubSeq(version, 1, i - 1))
    /\ IsNumberPart(SubSeq(version, i + 1, j - 1))
    /\ IsNumberPart(SubSeq(version, j + 1, Len(version)))

\* isValidVersion(version): version is the token array of the command line.
\* ok = FALSE stands for exitWithError; ret is the returned value.
isValidVersion(version) ==
  IF Len(version) > 1 THEN [ok |-> FALSE, ret |-> JsString(<<>>)]
  ELSE IF ~validateVersion(version[1]) THEN [ok |-> FALSE, ret |-> JsString(<<>>)]
  ELSE [ok |-> TRUE, ret |-> JsString(version[1])]

\* !invalidChars.test(branchName)
HasOnlyBranchChars(branchName) ==
  \A i \in 1..Len(branchName) : branchName[i] \in BranchChars

\* Mutant: the first token is validated and the others are ignored.
isValidBranchNameOfFirstToken(branchName) ==
  IF ~HasOnlyBranchChars(branchName[1]) THEN [ok |-> FALSE, ret |-> JsBoolean(FALSE)]
  ELSE [ok |-> TRUE, ret |-> JsBoolean(TRUE)]

\* isValidBranchName(branchName), branchName the token array: the value it
\* returns is isValid, a boolean.
isValidBranchName(branchName) ==
  IF Len(branchName) > 1 THEN [ok |-> FALSE, ret |-> JsBoolean(FALSE)]
  ELSE IF ~HasOnlyBranchChars(branchName[1]) THEN [ok |-> FALSE, ret |-> JsBoolean(FALSE)]
  ELSE [ok |-> TRUE, ret |-> JsBoolean(TRUE)]

\* String(value) as invalidChars.test(value) sees a value that is no array:
\* undefined is tested as the text "undefined".
RegexInput(value) ==
  IF value = Undefined THEN <<"u", "n", "d", "e", "f", "i", "n", "e", "d">> ELSE value

\* validateConfig(config): TRUE when it returns, FALSE for exitWithError. The
\* switches are booleans in every configuration of this model.
validateConfig(cfg) ==
  /\ \A field \in {"mainBranch", "developBranch"} : cfg[field] \notin {Undefined, <<>>}
  /\ HasOnlyBranchChars(RegexInput(cfg.mainBranch))
  /\ HasOnlyBranchChars(RegexInput(cfg.developBranch))
  /\ (cfg.useStaging => HasOnlyBranchChars(RegexInput(cfg.stagingBranch)))
  /\ \A prefix \in Kinds :
       /\ cfg.prefixes[prefix] # <<>>
       /\ HasOnlyBranchChars(RegexInput(cfg.prefixes[prefix]))

\* ------------------------------------------------------------------- state
VARIABLES
  configFile, \* the configuration file .gitflow-config.json
  config,    \* this.config of the controller (fixed by the configuration file)
  local,     \* the local branches, grouped by the commit they point to: a set
             \* of disjoint sets of names, one set for each commit hash
  current,   \* the branch that is checked out
  tree,      \* the working tree: "clean", "dirty" or "unmerged"
  tags,      \* the tags of the repository
  commands,  \* this.commands, the command queue of the running process
  executed,  \* the commands the process has run, with their exit codes and
             \* what they wrote to standard output and standard error
  phase,     \* "idle", "flush" (inside the loop of runCommands), "prompt"
             \* (loadConfig waits for the answer to its prompt) or "exit"
  result,    \* how the last process ended
  op,        \* the operation of the last invocation
  runs,      \* the number of invocations so far
  surfaced   \* the messages runCommands has given to exitWithError

vars == <<configFile, config, local, current, tree, tags, commands, executed, phase, result, op, runs, surfaced>>

repository == <<local, current, tags>>

\* The names of the local branches.
Branches == UNION local

\* Results that end the process with exitWithError before runCommands.
ValidationErrors == {"validation"}
StateErrors == {"exists", "missing", "nocommits", "dirty"}

\* --------------------------------------------------------------- commands
GitCheckout(branch) == [c |-> "checkout", a |-> branch, b |-> <<>>]
GitPull == [c |-> "pull", a |-> <<>>, b |-> <<>>]
GitCheckoutNew(branchName, fromBranch) == [c |-> "checkout -b", a |-> branchName, b |-> fromBranch]
GitMerge(sourceBranch) == [c |-> "merge --no-ff", a |-> sourceBranch, b |-> <<>>]
GitPush(branch) == [c |-> "push origin", a |-> branch, b |-> <<>>]
GitPushUpstream(branch) == [c |-> "push -u origin", a |-> branch, b |-> <<>>]
GitPushDelete(branch) == [c |-> "push origin --delete", a |-> branch, b |-> <<>>]
GitTag(version) == [c |-> "tag -a", a |-> <<"v">> \o version, b |-> <<>>]
GitBranchDelete(branch) == [c |-> "branch -d", a |-> branch, b |-> <<>>]

\* --------------------------------------------------- queries of the backend
getCurrentBranchName == current

\* Mutant: the exit code is compared with 1, which rev-parse --verify never returns.
branchExistsLocalWrongCode(branch) == FALSE

branchExistsLocal(branch) == branch \in Branches

\* git rev-parse prints the hash of a known branch, here the set of the
\* branches at its commit, and echoes an unknown name.
RevParse(branch) ==
  IF branch \in Branches
    THEN <<"hash", CHOOSE class \in local : branch \in class>>
    ELSE <<"name", {branch}>>

branchesMatch(branch1, branch2) == RevParse(branch1) = RevParse(branch2)

\* git diff --name-only --diff-filter=U lists the unmerged paths.
\* Mutant: the filter of git diff matches no file, no conflict is ever seen.
checkMergeConflictsOfNoFile == FALSE

checkMergeConflicts == tree = "unmerged"

\* git status --porcelain is empty.
WorkingTreeClean == tree = "clean"

\* ------------------------------------------------- steps of an operation
\* A step maps the process so far, [q: the queue, err: "none" or the error
\* that ended the process], to the process after the step.
Begin == [q |-> <<>>, err |-> "none"]

exitWithError(st, error) == [st EXCEPT !.err = error]

addCommand(st, command) == [st EXCEPT !.q = Append(@, command)]

checkoutBranch(st, branch) ==
  IF st.err # "none" THEN st
  ELSE IF getCurrentBranchName = branch THEN st
  ELSE IF ~branchExistsLocal(branch) THEN exitWithError(st, "missing")
  ELSE IF ~WorkingTreeClean THEN exitWithError(st, "dirty")
  ELSE addCommand(addCommand(st, GitCheckout(branch)), GitPull)

checkoutToMain(st) ==
  IF st.err # "none" THEN st
  ELSE IF config.mainBranch = getCurrentBranchName THEN st
  ELSE checkoutBranch(st, config.mainBranch)

checkoutToDevelop(st) ==
  IF st.err # "none" THEN st
  ELSE IF config.developBranch = getCurrentBranchName THEN st
  ELSE checkoutBranch(st, config.developBranch)

checkoutToStaging(st) ==
  IF st.err # "none" THEN st
  ELSE IF ~config.useStaging THEN exitWithError(st, "config")
  ELSE IF config.stagingBranch = Undefined THEN exitWithError(st, "config")
  ELSE IF config.stagingBranch = getCurrentBranchName THEN st
  ELSE checkoutBranch(st, config.stagingBranch)

createBranch(st, branchName, fromBranch) ==
  IF st.err # "none" THEN st
  ELSE IF branchExistsLocal(branchName) THEN exitWithError(st, "exists")
  ELSE addCommand(st, GitCheckoutNew(branchName, fromBranch))

pushBranch(st) ==
  IF st.err # "none" THEN st
  ELSE addCommand(st, GitPush(getCurrentBranchName))

\* Mutant: the merge is queued without the checkout of the target.
mergeBranchInPlace(st, sourceBranch, targetBranch) ==
  IF st.err # "none" THEN st
  ELSE LET queued == addCommand(st, GitMerge(sourceBranch))
       IN IF checkMergeConflicts THEN exitWithError(queued, "conflict")
          ELSE IF config.pushBranches THEN pushBranch(queued)
          ELSE queued

mergeBranch(st, sourceBranch, targetBranch) ==
  IF st.err # "none" THEN st
  ELSE LET queued == addCommand(addCommand(st, GitCheckout(targetBranch)),
                                GitMerge(sourceBranch))
       IN IF checkMergeConflicts THEN exitWithError(queued, "conflict")
          ELSE IF config.pushBranches THEN pushBranch(queued)
          ELSE queued

\* Mutant: the branch is deleted on origin whatever pushBranches is.
deleteBranchOnOrigin(st, branchName) ==
  IF st.err # "none" THEN st
  ELSE IF ~branchExistsLocal(branchName) THEN exitWithError(st, "missing")
  ELSE addCommand(addCommand(st, GitBranchDelete(branchName)), GitPushDelete(branchName))

deleteBranch(st, branchName) ==
  IF st.err # "none" THEN st
  ELSE IF ~branchExistsLocal(branchName) THEN exitWithError(st, "missing")
  ELSE LET queued == addCommand(st, GitBranchDelete(branchName))
       IN IF config.pushBranches THEN addCommand(queued, GitPushDelete(branchName))
          ELSE queued

addTag(st, version) ==
  IF st.err # "none" THEN st
  ELSE addCommand(st, GitTag(version))

\* ------------------------------------------------------------- operations
\* Each operation is the process at the call of runCommands (err = "none")
\* or at the exitWithError that ended it before.
startFeature(name) ==
  LET valid == isValidBranchName(name)
      featureBranchName == config.prefixes.feature \o TemplateString(valid.ret)
  IN IF ~valid.ok THEN exitWithError(Begin, "validation")
     ELSE IF branchExistsLocal(featureBranchName) THEN exitWithError(Begin, "exists")
     ELSE createBranch(checkoutToDevelop(Begin), featureBranchName, config.developBranch)

finishFeature(name) ==
  LET valid == isValidBranchName(name)
      featureBranchName == config.prefixes.feature \o TemplateString(valid.ret)
      merged == mergeBranch(checkoutToDevelop(Begin), featureBranchName, config.developBranch)
      staged == IF config.useStaging
                  THEN mergeBranch(checkoutToStaging(merged), featureBranchName, config.stagingBranch)
                  ELSE merged
  IN IF ~valid.ok THEN exitWithError(Begin, "validation")
     ELSE IF ~branchExistsLocal(featureBranchName) THEN exitWithError(Begin, "missing")
     ELSE IF branchesMatch(featureBranchName, config.developBranch)
       THEN exitWithError(Begin, "nocommits")
     ELSE deleteBranch(staged, featureBranchName)

startRelease(version) ==
  LET valid == isValidVersion(version)
      releaseBranchName == config.prefixes.release \o TemplateString(valid.ret)
  IN IF ~valid.ok THEN exitWithError(Begin, "validation")
     ELSE IF branchExistsLocal(releaseBranchName) THEN exitWithError(Begin, "exists")
     ELSE createBranch(checkoutToDevelop(Begin), releaseBranchName, config.developBranch)

finishRelease(version) ==
  LET valid == isValidVersion(version)
      releaseBranchName == config.prefixes.release \o TemplateString(valid.ret)
      onMain == mergeBranch(checkoutToMain(Begin), releaseBranchName, config.mainBranch)
      tagged == addTag(onMain, TemplateString(valid.ret))
      merged == mergeBranch(checkoutToDevelop(tagged), releaseBranchName, config.developBranch)
      staged == IF config.useStaging
                  THEN mergeBranch(checkoutToStaging(merged), releaseBranchName, config.stagingBranch)
                  ELSE merged
  IN IF ~valid.ok THEN exitWithError(Begin, "validation")
     ELSE IF ~branchExistsLocal(releaseBranchName) THEN exitWithError(Begin, "missing")
     ELSE deleteBranch(staged, releaseBranchName)

startBugfix(name) ==
  LET valid == isValidBranchName(name)
      bugfixBranchName == config.prefixes.bugfix \o TemplateString(valid.ret)
  IN IF ~valid.ok THEN exitWithError(Begin, "validation")
     ELSE IF branchExistsLocal(bugfixBranchName) THEN exitWithError(Begin, "exists")
     ELSE createBranch(checkoutToDevelop(Begin), bugfixBranchName, config.developBranch)

\* Mutant: the branch is deleted before it is merged.
finishBugfixDeletingFirst(name) ==
  LET valid == isValidBranchName(name)
      bugfixBranchName == config.prefixes.bugfix \o TemplateString(valid.ret)
      deleted == deleteBranch(Begin, bugfixBranchName)
      merged == mergeBranch(checkoutToDevelop(deleted), bugfixBranchName, config.developBranch)
  IN IF ~valid.ok THEN exitWithError(Begin, "validation")
     ELSE IF ~branchExistsLocal(bugfixBranchName) THEN exitWithError(Begin, "missing")
     ELSE IF branchesMatch(bugfixBranchName, config.developBranch)
       THEN exitWithError(Begin, "nocommits")
     ELSE IF config.useStaging
       THEN mergeBranch(checkoutToStaging(merged), bugfixBranchName, config.stagingBranch)
     ELSE merged

finishBugfix(name) ==
  LET valid == isValidBranchName(name)
      bugfixBranchName == config.prefixes.bugfix \o TemplateString(valid.ret)
      merged == mergeBranch(checkoutToDevelop(Begin), bugfixBranchName, config.developBranch)
      staged == IF config.useStaging
                  THEN mergeBranch(checkoutToStaging(merged), bugfixBranchName, config.stagingBranch)
                  ELSE merged
  IN IF ~valid.ok THEN exitWithError(Begin, "validation")
     ELSE IF ~branchExistsLocal(bugfixBranchName) THEN exitWithError(Begin, "missing")
     ELSE IF branchesMatch(bugfixBranchName, config.developBranch)
       THEN exitWithError(Begin, "nocommits")
     ELSE deleteBranch(staged, bugfixBranchName)

\* Mutant: the hotfix branch is based on develop, as the other kinds are.
startHotfixFromDevelop(name) ==
  LET valid == isValidBranchName(name)
      hotfixBranchName == config.prefixes.hotfix \o TemplateString(valid.ret)
  IN IF ~valid.ok THEN exitWithError(Begin, "validation")
     ELSE IF branchExistsLocal(hotfixBranchName) THEN exitWithError(Begin, "exists")
     ELSE createBranch(checkoutToDevelop(Begin), hotfixBranchName, config.developBranch)

startHotfix(name) ==
  LET valid == isValidBranchName(name)
      hotfixBranchName == config.prefixes.hotfix \o TemplateString(valid.ret)
  IN IF ~valid.ok THEN exitWithError(Begin, "validation")
     ELSE IF branchExistsLocal(hotfixBranchName) THEN exitWithError(Begin, "exists")
     ELSE createBranch(checkoutToMain(Begin), hotfixBranchName, config.mainBranch)

\* Mutant: the merge into develop comes before the merge into main.
finishHotfixDevelopFirst(name) ==
  LET valid == isValidBranchName(name)
      hotfixBranchName == config.prefixes.hotfix \o TemplateString(valid.ret)
      merged == mergeBranch(checkoutToDevelop(Begin), hotfixBranchName, config.developBranch)
      onMain == mergeBranch(checkoutToMain(merged), hotfixBranchName, config.mainBranch)
      staged == IF config.useStaging
                  THEN mergeBranch(checkoutToStaging(onMain), hotfixBranchName, config.stagingBranch)
                  ELSE onMain
  IN IF ~valid.ok THEN exitWithError(Begin, "validation")
     ELSE IF ~branchExistsLocal(hotfixBranchName) THEN exitWithError(Begin, "missing")
     ELSE IF branchesMatch(hotfixBranchName, config.mainBranch)
       THEN exitWithError(Begin, "nocommits")
     ELSE deleteBranch(staged, hotfixBranchName)

finishHotfix(name) ==
  LET valid == isValidBranchName(name)
      hotfixBranchName == config.prefixes.hotfix \o TemplateString(valid.ret)
      onMain == mergeBranch(checkoutToMain(Begin), hotfixBranchName, config.mainBranch)
      merged == mergeBranch(checkoutToDevelop(onMain), hotfixBranchName, config.developBranch)
      staged == IF config.useStaging
                  THEN mergeBranch(checkoutToStaging(merged), hotfixBranchName, config.stagingBranch)
                  ELSE merged
  IN IF ~valid.ok THEN exitWithError(Begin, "validation")
     ELSE IF ~branchExistsLocal(hotfixBranchName) THEN exitWithError(Begin, "missing")
     ELSE IF branchesMatch(hotfixBranchName, config.mainBranch)
       THEN exitWithError(Begin, "nocommits")
     ELSE deleteBranch(staged, hotfixBranchName)

\* init(args). The prompts' answers are inputs: args.yes, overwrite,
\* useExistingConfig, the answers to the questions about the configuration and
\* createBranchesOnRemote. The two prompts about an existing configuration
\* are asked when the file exists.
InitConfig(args) ==
  LET defaultConfig == IF configFile.exists /\ args.useExistingConfig
                         THEN LoadConfig(configFile)
                         ELSE DefaultConfig
  IN IF args.yes THEN defaultConfig
     ELSE [defaultConfig EXCEPT
             !.mainBranch = MainName,
             !.developBranch = DevelopName,
             !.useStaging = args.useStaging,
             !.stagingBranch = IF args.useStaging THEN StagingName ELSE @,
             !.pushBranches = args.pushBranches,
             !.createBranches = FALSE]

\* The working tree after fs.writeFileSync of the configuration file;
\* fileChanges: the file is new or changed, and git does not ignore it.
TreeAfterWrite(fileChanges) ==
  IF fileChanges /\ tree = "clean" THEN "dirty" ELSE tree

\* The commands init queues before it writes the file.
InitCheckout(cfg) ==
  LET onMain == IF getCurrentBranchName # cfg.mainBranch
                  THEN addCommand(Begin, GitCheckout(cfg.mainBranch))
                  ELSE Begin
  IN IF ~branchExistsLocal(MainName)
       THEN addCommand(onMain, GitCheckoutNew(GitflowConfigName, MainName))
       ELSE onMain

\* The commands init queues to create the branches; remoteStaging is the
\* answer of branchExistsRemote(stagingBranch).
InitBranches(st, cfg, remoteStaging) ==
  LET onMain == IF getCurrentBranchName # cfg.mainBranch
                  THEN addCommand(st, GitCheckout(cfg.mainBranch))
                  ELSE st
      created == IF remoteStaging THEN onMain
                 ELSE addCommand(onMain, GitCheckoutNew(cfg.developBranch, cfg.mainBranch))
      develop == IF ~branchExistsLocal(cfg.developBranch)
                   THEN addCommand(created, GitPushUpstream(cfg.developBranch))
                   ELSE onMain
      branched == IF remoteStaging THEN develop
                  ELSE addCommand(develop, GitCheckoutNew(cfg.stagingBranch, cfg.developBranch))
      staging == IF cfg.useStaging /\ branchExistsLocal(cfg.stagingBranch)
                   THEN addCommand(branched, GitPushUpstream(cfg.stagingBranch))
                   ELSE develop
  IN addCommand(staging, GitCheckout(cfg.mainBranch))

\* The process of init at the call of runCommands, or at the exit before:
\* checkWorkingTreeClean ends the process when the tree is not clean, and
\* returns true otherwise, so the commands that commit the file are never queued.
init(args, fileChanges, remoteStaging) ==
  LET cfg == InitConfig(args)
      queued == InitCheckout(cfg)
  IN IF TreeAfterWrite(fileChanges) # "clean" THEN exitWithError(queued, "dirty")
     ELSE IF args.createBranchesOnRemote THEN InitBranches(queued, cfg, remoteStaging)
     ELSE queued

\* new GitFlow() of a command: loadConfig runs to its end when the file
\* exists ("loaded", or "invalid" when validateConfig or JSON.parse ends the
\* process), and otherwise returns at its first await, the prompt on display
\* and this.config undefined ("prompt").
NewGitFlow ==
  IF ~configFile.exists THEN "prompt"
  ELSE IF validateConfig(LoadConfig(configFile)) THEN "loaded"
  ELSE "invalid"

\* An operation of a controller whose this.config is undefined: the
\* validation of the argument reads no configuration, the template literal
\* that builds the branch name throws a TypeError.
OperationWithoutConfig(name, arg) ==
  LET valid == IF name \in {"startRelease", "finishRelease"}
                 THEN isValidVersion(arg)
                 ELSE isValidBranchName(arg)
  IN IF ~valid.ok THEN exitWithError(Begin, "validation")
     ELSE exitWithError(Begin, "typeerror")

\* checkoutBranch of such a controller: it returns when the branch is the
\* current one and ends with its errors; otherwise reading
\* this.config.debug throws a TypeError before a command is queued.
checkoutBranchWithoutConfig(branch) ==
  LET st == checkoutBranch(Begin, branch)
  IN IF st.err # "none" \/ st.q = <<>> THEN st
     ELSE exitWithError(Begin, "typeerror")

\* The operation a command of the command line runs.
Operation(name, arg) ==
  CASE name = "startFeature" -> startFeature(arg)
    [] name = "finishFeature" -> finishFeature(arg)
    [] name = "startRelease" -> startRelease(arg)
    [] name = "finishRelease" -> finishRelease(arg)
    [] name = "startBugfix" -> startBugfix(arg)
    [] name = "finishBugfix" -> finishBugfix(arg)
    [] name = "startHotfix" -> startHotfix(arg)
    [] name = "finishHotfix" -> finishHotfix(arg)

\* ------------------------------------------------------------ the backend
\* The branches without `branch`.
WithoutBranch(branches, branch) ==
  {class \ {branch} : class \in branches} \ {{}}

\* `branch` at a commit of its own: a new commit on it.
WithCommit(branches, branch) ==
  WithoutBranch(branches, branch) \cup {{branch}}

\* `branch` at the commit of `fromBranch`.
WithBranch(branches, branch, fromBranch) ==
  {IF fromBranch \in class THEN class \cup {branch} ELSE class : class \in branches}

\* What a command wrote to its standard output and to its standard error.
Out == <<"o", "u", "t">>
Err == <<"e", "r", "r">>

\* The streams of the result of shell.exec with exit code `code`: a command
\* that failed has written to both, to one or to none; what a command that
\* succeeded has written is read by nothing but the debug print.
Streams(code) ==
  IF code = 0 THEN {[stdout |-> <<>>, stderr |-> <<>>]}
  ELSE [stdout : {<<>>, Out}, stderr : {<<>>, Err}]

Repo(code, l, c, t, g) ==
  [code |-> code, local |-> l, current |-> c, tree |-> t, tags |-> g]

\* The command fails and changes nothing.
Failed == Repo(1, local, current, tree, tags)

\* shell.exec(command): the results git can give in the current repository,
\* each an exit code and the repository it leaves. The remote is not part of
\* the state: a command that talks to origin succeeds or fails.
ShellExec(command) ==
  CASE command.c = "checkout" ->
         IF command.a \notin Branches THEN {Failed}
         ELSE {Repo(0, local, command.a, tree, tags)}
              \cup (IF tree = "clean" THEN {} ELSE {Failed})
    [] command.c = "pull" ->
         {Repo(0, local, current, tree, tags), Failed}
    [] command.c = "checkout -b" ->
         IF command.a \in Branches \/ command.b \notin Branches THEN {Failed}
         ELSE {Repo(0, WithBranch(local, command.a, command.b), command.a, tree, tags)}
    [] command.c = "merge --no-ff" ->
         IF command.a \notin Branches THEN {Failed}
         ELSE {Repo(0, WithCommit(local, current), current, tree, tags),
               Repo(1, local, current, "unmerged", tags)}
    [] command.c \in {"push origin", "push -u origin"} ->
         IF command.a \notin Branches THEN {Failed}
         ELSE {Repo(0, local, current, tree, tags), Failed}
    [] command.c = "push origin --delete" ->
         {Repo(0, local, current, tree, tags), Failed}
    [] command.c = "tag -a" ->
         IF command.a \in tags THEN {Failed}
         ELSE {Repo(0, local, current, tree, tags \cup {command.a})}
    [] command.c = "branch -d" ->
         IF command.a \notin Branches \/ command.a = current THEN {Failed}
         ELSE {Repo(0, WithoutBranch(local, command.a), current, tree, tags), Failed}

\* ------------------------------------------------------------ runCommands
\* The command the loop of runCommands runs next.
NextCommand == Len(executed) + 1

\* Mutant: the loop does not look at the exit code.
AfterCommandIgnoringCode(code, i, n) ==
  IF i = n THEN [phase |-> "exit", result |-> "ok"]
  ELSE [phase |-> "flush", result |-> "none"]

\* After a command with exit code `code`, the i-th of n: the loop goes on,
\* returns, or exitWithError ends the process.
AfterCommand(code, i, n) ==
  IF code # 0 THEN [phase |-> "exit", result |-> "exec"]
  ELSE IF i = n THEN [phase |-> "exit", result |-> "ok"]
  ELSE [phase |-> "flush", result |-> "none"]

\* Mutant: debug mode prints the queue and runs it all the same.
EnterRunCommandsInDebug(cfg, queue) ==
  IF queue = <<>> THEN [phase |-> "exit", result |-> "ok"]
  ELSE [phase |-> "flush", result |-> "none"]

\* The entry of runCommands of a controller with configuration cfg: in debug
\* mode exit() ends the process.
EnterRunCommands(cfg, queue) ==
  IF cfg.debug THEN [phase |-> "exit", result |-> "debug"]
  ELSE IF queue = <<>> THEN [phase |-> "exit", result |-> "ok"]
  ELSE [phase |-> "flush", result |-> "none"]

\* Mutant: exitWithError prints the error and the process goes on.
EnteredAfterError(st, cfg) ==
  [phase |-> EnterRunCommands(cfg, st.q).phase,
   result |-> IF st.err # "none" THEN st.err ELSE EnterRunCommands(cfg, st.q).result]

\* Mutant: the commands queued before an error are run on the way out.
EnteredFlushingQueue(st, cfg) ==
  IF st.err # "none" /\ st.q = <<>> THEN [phase |-> "exit", result |-> st.err]
  ELSE IF st.err # "none" THEN [phase |-> "flush", result |-> st.err]
  ELSE EnterRunCommands(cfg, st.q)

\* The process after the operation `st`: exitWithError has ended it
\* (process.exit), or it enters runCommands.
Entered(st, cfg) ==
  IF st.err # "none" THEN [phase |-> "exit", result |-> st.err]
  ELSE EnterRunCommands(cfg, st.q)

\* Mutant: the message is the standard output when there is one.
ErrorMessageOfStdout(shellResult) ==
  IF shellResult.stdout = <<>> THEN shellResult.stderr ELSE shellResult.stdout

\* The message of the exitWithError of runCommands for the result of a
\* command that failed.
ErrorMessage(shellResult) ==
  IF shellResult.stderr = <<>> THEN shellResult.stdout ELSE shellResult.stderr

\* The exit code of a process that has ended with `outcome`: exit() is
\* process.exit(1), called by exitWithMessage and exitWithError and by
\* runCommands in debug mode; an uncaught TypeError ends the process with 1
\* too; a process that returns from its operation ends with 0.
ExitCodeOf(outcome) == IF outcome = "ok" THEN 0 ELSE 1

\* ------------------------------------------------------------------ inputs
Login == <<"l", "o", "g", "i", "n">>
Fix == <<"f", "i", "x">>

\* The token arrays of <name...>: a name, two tokens, a quoted name with a space.
NameArgs == {<<Login>>, <<Login, Fix>>, <<<<"a", " ", "b">>>>}

\* The token arrays of <version...>.
VersionArgs == {<<<<"1", ".", "0", ".", "0">>>>, <<<<"1", ".", "2">>>>}

OperationNames ==
  {"startFeature", "finishFeature", "startRelease", "finishRelease",
   "startBugfix", "finishBugfix", "startHotfix", "finishHotfix"}

KindOf(name) ==
  CASE name \in {"startFeature", "finishFeature"} -> "feature"
    [] name \in {"startRelease", "finishRelease"} -> "release"
    [] name \in {"startBugfix", "finishBugfix"} -> "bugfix"
    [] name \in {"startHotfix", "finishHotfix"} -> "hotfix"

IsStart(name) == name \in {"startFeature", "startRelease", "startBugfix", "startHotfix"}
IsFinish(name) == name \in {"finishFeature", "finishRelease", "finishBugfix", "finishHotfix"}

ArgsOf(name) == IF KindOf(name) = "release" THEN VersionArgs ELSE NameArgs

\* The branches of `switch <branch>`.
SwitchArgs == {MainName, DevelopName, StagingName}

\* The answers to the prompts of init.
InitArgs ==
  [yes : BOOLEAN, overwrite : {TRUE}, useExistingConfig : BOOLEAN,
   useStaging : {TRUE}, pushBranches : {FALSE}, createBranchesOnRemote : BOOLEAN]
  \cup
  [yes : {TRUE}, overwrite : {FALSE}, useExistingConfig : {TRUE},
   useStaging : {TRUE}, pushBranches : {FALSE}, createBranchesOnRemote : {FALSE}]

\* ----------------------------------------------------------------- actions
\* The tool is run at most MaxRuns times.
Counted ==
  /\ runs < MaxRuns
  /\ runs' = runs + 1

NoOperation == [name |-> "none", arg |-> <<>>]

\* The configuration files a repository starts with: one that init wrote, one
\* written by hand, or none.
ConfigFiles ==
  {Stringify(ConfigOf(useStaging, pushBranches, debug)) :
     useStaging \in BOOLEAN, pushBranches \in BOOLEAN, debug \in BOOLEAN}
  \cup {StagingOnlyFile, NoFile}

Init ==
  /\ configFile \in ConfigFiles
  /\ config = LoadConfig(configFile)
  /\ \E staging \in (IF config.useStaging /\ config.stagingBranch # Undefined
                       THEN {{StagingName}, {}} ELSE {{}}) :
       local = {{MainName, DevelopName} \cup staging}
  /\ current = MainName
  /\ tree = "clean"
  /\ tags = {}
  /\ commands = <<>>
  /\ executed = <<>>
  /\ phase = "idle"
  /\ result = "none"
  /\ op = NoOperation
  /\ runs = 0
  /\ surfaced = <<>>

\* A process of the tool is running.
Running == phase \in {"flush", "prompt"}

\* Mutant: an operation that needs the staging branch turns useStaging on in
\* the configuration of the controller.
InvokeEnablingStaging(made, name, arg) ==
  /\ ~Running
  /\ Counted
  /\ LET st == CASE made = "loaded" -> Operation(name, arg)
                 [] made = "invalid" -> exitWithError(Begin, "invalid")
                 [] made = "prompt" -> OperationWithoutConfig(name, arg)
     IN /\ commands' = st.q
        /\ phase' = Entered(st, config).phase
        /\ result' = Entered(st, config).result
  /\ executed' = <<>>
  /\ surfaced' = <<>>
  /\ op' = [name |-> name, arg |-> arg]
  /\ config' = IF made = "loaded" /\ IsFinish(name)
                THEN [config EXCEPT !.useStaging = TRUE] ELSE config
  /\ UNCHANGED <<configFile, local, current, tree, tags>>

\* A command of the command line: new GitFlow() and the operation, up to the
\* entry of runCommands.
Invoke(made, name, arg) ==
  /\ ~Running
  /\ Counted
  /\ LET st == CASE made = "loaded" -> Operation(name, arg)
                 [] made = "invalid" -> exitWithError(Begin, "invalid")
                 [] made = "prompt" -> OperationWithoutConfig(name, arg)
     IN /\ commands' = st.q
        /\ phase' = Entered(st, config).phase
        /\ result' = Entered(st, config).result
  /\ executed' = <<>>
  /\ surfaced' = <<>>
  /\ op' = [name |-> name, arg |-> arg]
  /\ UNCHANGED <<configFile, config, local, current, tree, tags>>

Start ==
  \E made \in {NewGitFlow} :
     \E name \in {n \in OperationNames : IsStart(n)} : \E arg \in ArgsOf(name) : Invoke(made, name, arg)

Finish ==
  \E made \in {NewGitFlow} :
     \E name \in {n \in OperationNames : IsFinish(n)} : \E arg \in ArgsOf(name) : Invoke(made, name, arg)

\* switch <branch>: new GitFlow().checkoutBranch(branch); the queue is not
\* run. Without a configuration file the process then waits for the answer
\* to the prompt of loadConfig.
Switch ==
  /\ ~Running
  /\ Counted
  /\ \E made \in {NewGitFlow}, branch \in SwitchArgs :
       LET st == CASE made = "loaded" -> checkoutBranch(Begin, branch)
                   [] made = "invalid" -> exitWithError(Begin, "invalid")
                   [] made = "prompt" -> checkoutBranchWithoutConfig(branch)
       IN /\ commands' = st.q
          /\ result' = IF st.err # "none" THEN st.err
                       ELSE IF made = "prompt" THEN "none"
                       ELSE "ok"
          /\ phase' = IF st.err = "none" /\ made = "prompt" THEN "prompt" ELSE "exit"
          /\ op' = [name |-> "switch", arg |-> <<branch>>]
  /\ executed' = <<>>
  /\ surfaced' = <<>>
  /\ UNCHANGED <<configFile, config, local, current, tree, tags>>

\* The answer to "Do you want to run 'gitflow init'?": exitWithMessage when
\* it is no, and await this.init() when it is yes, a TypeError since init is
\* a static method.
AnswerPrompt ==
  /\ phase = "prompt"
  /\ \E runInit \in BOOLEAN :
       result' = IF runInit THEN "typeerror" ELSE "declined"
  /\ phase' = "exit"
  /\ UNCHANGED <<configFile, config, local, current, tree, tags, commands, executed, op, runs, surfaced>>

\* init: GitFlow.init(args).
Initialize ==
  /\ ~Running
  /\ Counted
  /\ \E args \in InitArgs, fileChanges \in BOOLEAN :
     \E remoteStaging \in (IF args.createBranchesOnRemote THEN BOOLEAN ELSE {FALSE}) :
       IF configFile.exists /\ ~args.overwrite
         THEN /\ commands' = <<>>
              /\ phase' = "exit"
              /\ result' = "cancel"
              /\ UNCHANGED <<configFile, config, tree>>
         ELSE LET st == init(args, fileChanges, remoteStaging)
              IN /\ config' = InitConfig(args)
                 /\ configFile' = Stringify(InitConfig(args))
                 /\ tree' = TreeAfterWrite(fileChanges)
                 /\ commands' = st.q
                 /\ phase' = Entered(st, InitConfig(args)).phase
                 /\ result' = Entered(st, InitConfig(args)).result
  /\ executed' = <<>>
  /\ surfaced' = <<>>
  /\ op' = [name |-> "init", arg |-> <<>>]
  /\ UNCHANGED <<local, current, tags>>

\* One iteration of the loop of runCommands.
RunCommand ==
  /\ phase = "flush"
  /\ LET i == NextCommand
     IN \E out \in ShellExec(commands[i]) : \E streams \in Streams(out.code) :
          /\ executed' = Append(executed, [command |-> commands[i], code |-> out.code,
                                           stdout |-> streams.stdout, stderr |-> streams.stderr])
          /\ surfaced' = IF out.code # 0 THEN Append(surfaced, ErrorMessage(streams)) ELSE surfaced
          /\ local' = out.local
          /\ current' = out.current
          /\ tree' = out.tree
          /\ tags' = out.tags
          /\ phase' = AfterCommand(out.code, i, Len(commands)).phase
          /\ result' = AfterCommand(out.code, i, Len(commands)).result
  /\ UNCHANGED <<configFile, config, commands, op, runs>>

\* The process has ended: its queue is gone.
NoProcess ==
  /\ commands' = <<>>
  /\ executed' = <<>>
  /\ surfaced' = <<>>
  /\ phase' = "idle"
  /\ result' = "none"
  /\ op' = NoOperation

\* The user, between two runs of the tool: a commit on the current branch, a
\* branch the tool started (main, develop and staging move by merges only),
UserCommit ==
  /\ ~Running
  /\ current \notin {MainName, DevelopName, StagingName}
  /\ tree # "unmerged"
  /\ local' = WithCommit(local, current)
  /\ NoProcess
  /\ UNCHANGED <<configFile, config, current, tree, tags, runs>>

\* an edit, a stash or a merge of their own that changes the working tree,
UserEdit ==
  /\ ~Running
  /\ tree' \in {"clean", "dirty", "unmerged"} \ {tree}
  /\ NoProcess
  /\ UNCHANGED <<configFile, config, local, current, tags, runs>>

\* a checkout of another branch.
UserCheckout ==
  /\ ~Running
  /\ tree = "clean"
  /\ \E b \in Branches \ {current} : current' = b
  /\ NoProcess
  /\ UNCHANGED <<configFile, config, local, tree, tags, runs>>

\* an edit of the configuration file that switches debug, which no prompt of
\* init asks for.
UserDebug ==
  /\ ~Running
  /\ configFile.exists
  /\ configFile' = [configFile EXCEPT !.keys = @ \cup {"debug"},
                                      !.value = [@ EXCEPT !.debug = ~@]]
  /\ config' = LoadConfig(configFile')
  /\ NoProcess
  /\ UNCHANGED <<local, current, tree, tags, runs>>

Next ==
  \/ Start
  \/ Finish
  \/ Switch
  \/ AnswerPrompt
  \/ Initialize
  \/ RunCommand
  \/ UserCommit
  \/ UserEdit
  \/ UserCheckout
  \/ UserDebug

Spec == Init /\ [][Next]_vars

\* ------------------------------------------------- the validations alone
\* The strings over `chars` of at most n characters.
Strings(chars, n) == UNION {[1..k -> chars] : k \in 0..n}

\* Characters of every kind the class of invalidChars tells apart.
NameChars == {"a", "Z", "7", "-", "_", ".", "/", " ", "!"}

\* The characters of a version and one that is none.
VersionChars == {"0", "1", ".", "-"}

\* Token arrays of <name...>: one token, or two short ones.
BranchNameInputs ==
  {<<t>> : t \in Strings(NameChars, MaxNameLen)}
  \cup {<<t, u>> : t \in Strings(NameChars, 1), u \in Strings(NameChars, 1)}

\* Token arrays of <version...>.
VersionInputs ==
  {<<t>> : t \in Strings(VersionChars, MaxVersionLen)}
  \cup {<<t, u>> : t \in {<<"1", ".", "0", ".", "0">>, <<"1">>}, u \in Strings(VersionChars, 1)}

InitValidation ==
  /\ configFile = NoFile
  /\ config = DefaultConfig
  /\ local = {{MainName, DevelopName}}
  /\ current = MainName
  /\ tree = "clean"
  /\ tags = {}
  /\ commands = <<>>
  /\ executed = <<>>
  /\ phase = "idle"
  /\ result = "none"
  /\ op = NoOperation
  /\ runs = 0
  /\ surfaced = <<>>

\* A call of a validation: it returns (result "ok") or ends the process with
\* exitWithError (result "validation").
Validate(name, ok, arg) ==
  /\ phase = "idle"
  /\ op' = [name |-> name, arg |-> arg]
  /\ result' = IF ok THEN "ok" ELSE "validation"
  /\ phase' = "exit"
  /\ UNCHANGED <<configFile, config, local, current, tree, tags, commands, executed, runs, surfaced>>

ValidateBranchName ==
  \E arg \in BranchNameInputs : Validate("isValidBranchName", isValidBranchName(arg).ok, arg)

ValidateVersion ==
  \E arg \in VersionInputs : Validate("isValidVersion", isValidVersion(arg).ok, arg)

NextValidation ==
  \/ ValidateBranchName
  \/ ValidateVersion

SpecValidation == InitValidation /\ [][NextValidation]_vars

\* --------------------------------------- the configuration file alone
TrunkName == <<"t", "r", "u", "n", "k">>

ShortPrefixes ==
  [feature |-> <<"f", "/">>, release |-> <<"r", "/">>,
   bugfix |-> <<"b", "/">>, hotfix |-> <<"h", "/">>]

\* The values a configuration object may hold under a key.
ConfigValues ==
  [mainBranch : {MainName, TrunkName},
   developBranch : {DevelopName},
   useStaging : BOOLEAN,
   stagingBranch : {StagingName},
   pushBranches : BOOLEAN,
   createBranches : {FALSE},
   debug : BOOLEAN,
   prefixes : {DefaultPrefixes, ShortPrefixes}]

\* The configuration objects init may be left with after its prompts: an
\* object with some of the keys (the defaults stand under the others).
ConfigObjects ==
  {[exists |-> FALSE, keys |-> keys, value |-> Spread(DefaultConfig, keys, value)] :
     keys \in SUBSET (ConfigKeys \ {"developBranch", "createBranches"}),
     value \in ConfigValues}

\* init from `object` on: new GitFlow(object) merges it over #defaultConfig
\* and validates it, and the configuration of the controller is written.
Persist(name, object) ==
  /\ validateConfig(Spread(DefaultConfig, object.keys, object.value))
  /\ config' = Spread(DefaultConfig, object.keys, object.value)
  /\ configFile' = Stringify(config')
  /\ op' = [name |-> name, arg |-> <<object>>]
  /\ phase' = "exit"
  /\ result' = "ok"
  /\ UNCHANGED <<local, current, tree, tags, commands, executed, runs, surfaced>>

\* init in a directory without a configuration file.
PersistConfig ==
  /\ phase = "idle"
  /\ \E object \in ConfigObjects : Persist("init", object)

\* new GitFlow() of a later command: loadConfig reads the file.
LoadPersisted ==
  /\ op.name \in {"init", "initAgain"}
  /\ configFile.exists
  /\ validateConfig(LoadConfig(configFile))
  /\ config' = LoadConfig(configFile)
  /\ op' = [op EXCEPT !.name = IF op.name = "init" THEN "loadConfig" ELSE "loadConfigAgain"]
  /\ UNCHANGED <<configFile, local, current, tree, tags, commands, executed, phase, result, runs, surfaced>>

\* init -y that keeps the existing configuration: the object is
\* JSON.parse of the file.
PersistLoaded ==
  /\ op.name = "loadConfig"
  /\ Persist("initAgain", configFile)

NextConfig ==
  \/ PersistConfig
  \/ LoadPersisted
  \/ PersistLoaded

SpecConfig == InitValidation /\ [][NextConfig]_vars

\* ------------------------------------------------------------ properties
\* The last invocation reached runCommands: every check of the operation passed.
EnteredRunCommands == phase = "flush" \/ result \in {"ok", "exec", "debug"}

\* The step is an invocation of the tool.
Invoked == runs' = runs + 1

\* The branch of kind `kind` with short name n, as the configuration names it.
WorkBranch(kind, n) == config.prefixes[kind] \o n

\* The branch a new branch of the kind is based on.
BaseBranch(kind) == IF kind = "hotfix" THEN config.mainBranch ELSE config.developBranch

\* The argument of the last invocation is one token that passes the validation.
ValidArg ==
  /\ op.name \in OperationNames
  /\ Len(op.arg) = 1
  /\ IF KindOf(op.name) = "release" THEN validateVersion(op.arg[1])
     ELSE HasOnlyBranchChars(op.arg[1])

MergeIndexes(q) == {i \in 1..Len(q) : q[i].c = "merge --no-ff"}

Nth(S, k) == CHOOSE i \in S : Cardinality({j \in S : j <= i}) = k

\* The branches the merges of a queue are applied to: a merge runs on the
\* branch the checkout before it names.
MergeTargets(q) ==
  [k \in 1..Cardinality(MergeIndexes(q)) |-> q[Nth(MergeIndexes(q), k) - 1].a]

MergesFollowCheckouts(q) ==
  \A i \in MergeIndexes(q) : i > 1 /\ q[i - 1].c = "checkout"

StagingTarget == IF config.useStaging THEN <<config.stagingBranch>> ELSE <<>>

\* C1: finishRelease with useStaging, all checks passed: the queue merges the
\* release branch into main, then tags v<version> after the main merge and
\* before any command that names develop, then merges into develop, then into
\* staging; a successful run has executed exactly the queue.
C1_ReleaseOrder ==
  (op.name = "finishRelease" /\ config.useStaging /\ EnteredRunCommands) =>
    LET q == commands
        merges == MergeIndexes(q)
        tagged == {i \in 1..Len(q) : q[i].c = "tag -a"}
    IN /\ MergesFollowCheckouts(q)
       /\ MergeTargets(q) = <<config.mainBranch, config.developBranch, config.stagingBranch>>
       /\ \A i \in merges : q[i] = GitMerge(WorkBranch("release", op.arg[1]))
       /\ Cardinality(tagged) = 1
       /\ \A t \in tagged :
            /\ q[t] = GitTag(op.arg[1])
            /\ Nth(merges, 1) < t
            /\ t < Nth(merges, 2)
            /\ \A i \in 1..(t - 1) : q[i].a # config.developBranch
       /\ (result = "ok" => [i \in 1..Len(executed) |-> executed[i].command] = q)

\* C2: at the call of runCommands the merges of finishFeature and finishBugfix
\* are applied to develop and then staging, those of finishHotfix to main,
\* develop and then staging; the staging merge is there iff useStaging.
C2_MergeTargets ==
  (op.name \in {"finishFeature", "finishBugfix", "finishHotfix"} /\ EnteredRunCommands) =>
    /\ MergesFollowCheckouts(commands)
    /\ MergeTargets(commands) =
         (IF op.name = "finishHotfix" THEN <<config.mainBranch>> ELSE <<>>)
           \o <<config.developBranch>> \o StagingTarget

C2_Witness ==
  /\ op.name = "finishHotfix"
  /\ config.useStaging
  /\ result = "ok"
  /\ Len(executed) = Len(commands)

\* C3: with pushBranches, the command queued right after the merge into a
\* target T is git push origin T.
C3_PushesTarget ==
  (IsFinish(op.name) /\ config.pushBranches /\ EnteredRunCommands) =>
    \A i \in MergeIndexes(commands) :
      /\ i > 1
      /\ i < Len(commands)
      /\ commands[i + 1] = GitPush(commands[i - 1].a)

\* C4: a finish whose merge left unmerged paths has failed with the
\* merge-conflict error, and the commands that delete the branch are not in
\* the queue and were not executed.
C4_ConflictBeforeDeletion ==
  (/\ IsFinish(op.name)
   /\ \E i \in 1..Len(executed) :
        executed[i].command.c = "merge --no-ff" /\ executed[i].code # 0) =>
    /\ result = "conflict"
    /\ \A i \in 1..Len(commands) :
         commands[i].c \notin {"branch -d", "push origin --delete"}
    /\ \A i \in 1..Len(executed) :
         executed[i].command.c \notin {"branch -d", "push origin --delete"}

\* Without debug, runCommands executes the queue in its order; after an exit
\* code other than 0 the process has ended and nothing more is executed.
C5_ExecutedInOrder ==
  ~config.debug =>
    /\ Len(executed) <= Len(commands)
    /\ \A i \in 1..Len(executed) : executed[i].command = commands[i]
    /\ \A i \in 1..(Len(executed) - 1) : executed[i].code = 0
    /\ (executed # <<>> /\ executed[Len(executed)].code # 0) =>
         (phase = "exit" /\ result = "exec")
    /\ (phase = "flush" => Len(executed) < Len(commands))
    /\ (result = "ok" /\ op.name # "switch" => Len(executed) = Len(commands))

\* C5: the executed commands are always a prefix of the queue, a failed command
\* is the last one executed, and the step that fails leaves the branches, the
\* tags and the current branch as the commands before it made them.
C5_AbortOnFailure ==
  /\ [](C5_ExecutedInOrder)
  /\ [][/\ (result = "exec" => executed' \in {executed, <<>>})
        /\ (result' = "exec" /\ phase = "flush" =>
              /\ SubSeq(executed', 1, Len(executed)) = executed
              /\ repository' = repository)]_vars

C5_Witness ==
  /\ result = "exec"
  /\ Len(executed) >= 3
  /\ Len(executed) < Len(commands)
  /\ current # MainName

\* C6: a controller in debug mode executes no command: nothing is ever
\* executed, and no step of the tool changes the branches, the tags or the
\* current branch, in start, finish, switch and init.
C6_DebugExecutesNothing ==
  /\ [](config.debug /\ op.name # "none" => executed = <<>> /\ phase = "exit")
  /\ [][(config'.debug /\ op'.name # "none") =>
          (repository' = repository /\ executed' = <<>>)]_vars

C6_Witness ==
  /\ config.debug
  /\ result = "debug"
  /\ IsFinish(op.name)
  /\ Len(commands) > 2
  /\ executed = <<>>

\* C7: finish, for every kind, on an existing branch at the commit of its base
\* branch fails with the 'no commits yet' error and queues no merge.
C7_NoCommitsYet ==
  [][(/\ Invoked
      /\ IsFinish(op'.name)
      /\ Len(op'.arg) = 1
      /\ WorkBranch(KindOf(op'.name), op'.arg[1]) \in Branches
      /\ branchesMatch(WorkBranch(KindOf(op'.name), op'.arg[1]), BaseBranch(KindOf(op'.name))))
     => (result' = "nocommits" /\ MergeIndexes(commands') = {})]_vars

\* C8: a state error or a validation error of start, finish or switch is
\* raised while the queue is empty.
C8_ErrorsOnEmptyQueue ==
  (op.name \in OperationNames \cup {"switch"}
     /\ result \in StateErrors \cup ValidationErrors) => commands = <<>>

\* C8 as amended: such an error is raised before any command of the queue has
\* been executed, and ends the process: no command is executed after it.
C8_ErrorsBeforeExecution ==
  /\ [](op.name \in OperationNames \cup {"switch"}
          /\ result \in StateErrors \cup ValidationErrors
        => executed = <<>> /\ phase = "exit")
  /\ [][(op.name \in OperationNames \cup {"switch"}
           /\ result \in StateErrors \cup ValidationErrors)
        => executed' = <<>>]_vars

C8_Witness ==
  /\ IsFinish(op.name)
  /\ result \in StateErrors
  /\ Len(commands) > 0
  /\ executed = <<>>

\* C9: after a start that succeeded, the same start fails with the 'already
\* exists' error and queues no command that creates a branch.
C9_SecondStartFails ==
  [][(/\ phase = "exit"
      /\ result = "ok"
      /\ IsStart(op.name)
      /\ Invoked
      /\ op' = op)
     => (/\ result' = "exists"
         /\ \A i \in 1..Len(commands') : commands'[i].c # "checkout -b")]_vars

C9_Witness ==
  /\ IsStart(op.name)
  /\ result = "exists"
  /\ runs = 2
  /\ commands = <<>>

\* C10: start and finish of feature, bugfix and hotfix with a valid name n of
\* one token name the branch prefix + n in every command that creates, merges
\* or deletes a branch.
C10_NamesPrefixedBranch ==
  (op.name \in OperationNames /\ KindOf(op.name) # "release" /\ ValidArg) =>
    \A i \in 1..Len(commands) :
      commands[i].c \in {"checkout -b", "merge --no-ff", "branch -d", "push origin --delete"}
        => commands[i].a = WorkBranch(KindOf(op.name), op.arg[1])

\* C11: a switch to a local branch other than the current one, with a clean
\* working tree, has run the checkout of the branch and the pull when the
\* process ends; a switch to a branch that is missing, or with a working tree
\* that is not clean, ends with a state error.
C11_SwitchChecksOut ==
  [][(Invoked /\ op'.name = "switch" /\ configFile.exists) =>
       LET branch == op'.arg[1]
       IN /\ (branchExistsLocal(branch) /\ WorkingTreeClean /\ branch # current) =>
               \/ phase' = "flush"
               \/ /\ Len(executed') >= 2
                  /\ executed'[1].command = GitCheckout(branch)
                  /\ executed'[2].command = GitPull
          /\ (~branchExistsLocal(branch) \/ ~WorkingTreeClean) =>
               result' \in StateErrors]_vars

\* C12: a start with a valid argument, invoked while the working tree is not
\* clean, ends with a state error and queues no command that creates a
\* branch, whatever the current branch is.
C12_DirtyStartFails ==
  [][(Invoked /\ IsStart(op'.name) /\ ValidArg' /\ configFile.exists /\ ~WorkingTreeClean) =>
       /\ result' \in StateErrors
       /\ \A i \in 1..Len(commands') : commands'[i].c # "checkout -b"]_vars

\* C13: a start whose checks all passed has queued exactly one command that
\* creates a branch, based on develop for feature, release and bugfix and on
\* main for hotfix, and no push.
C13_StartCreatesFromBase ==
  (op.name \in OperationNames /\ IsStart(op.name) /\ EnteredRunCommands) =>
    /\ Cardinality({i \in 1..Len(commands) : commands[i].c = "checkout -b"}) = 1
    /\ \A i \in 1..Len(commands) :
         /\ commands[i].c = "checkout -b" => commands[i].b = BaseBranch(KindOf(op.name))
         /\ commands[i].c \notin {"push origin", "push -u origin", "push origin --delete"}

C13_Witness ==
  /\ op.name = "startHotfix"
  /\ result = "ok"
  /\ Len(executed) = 3
  /\ executed[3].command.b = MainName
  /\ current \notin {MainName, DevelopName, StagingName}

\* The lifecycle commands: start, finish and switch.
Lifecycle == OperationNames \cup {"switch"}

\* C14: without a configuration file a lifecycle command with a valid
\* argument does nothing before the prompt of loadConfig is answered: its
\* process waits at the prompt with an empty queue, and ends there when the
\* answer is no.
C14_AsksBeforeOperation ==
  [][/\ (/\ Invoked
         /\ ~configFile.exists
         /\ op'.name \in Lifecycle
         /\ (op'.name \in OperationNames => ValidArg')) =>
           (phase' = "prompt" /\ result' = "none" /\ commands' = <<>>)
     /\ (phase = "prompt" /\ result' = "declined") =>
           (phase' = "exit" /\ commands' = <<>>)]_vars

\* C15: a controller that loadConfig has given a configuration never has
\* useStaging without a staging branch name.
C15_StagingBranchPresent ==
  (op.name \in Lifecycle /\ configFile.exists /\ result # "invalid") =>
    (config.useStaging => config.stagingBranch # Undefined)

\* The errors of an operation: validation, state, merge conflict, command
\* execution and configuration errors.
OperationErrors ==
  ValidationErrors \cup StateErrors \cup {"conflict", "exec", "config", "invalid", "typeerror"}

\* C16: a start or finish ends with exit code 1 exactly when an error
\* occurred, and with 0 when its checks passed and its commands succeeded or,
\* in debug mode, were only reported.
C16_ExitCodes ==
  (phase = "exit" /\ op.name \in OperationNames) =>
    /\ ExitCodeOf(result) = 1 <=> result \in OperationErrors
    /\ result \in {"ok", "debug"} => ExitCodeOf(result) = 0

\* C17: after runCommands has executed every queued command with exit code 0
\* the queue of the controller is empty.
C17_QueueConsumed ==
  (/\ phase = "exit"
   /\ result = "ok"
   /\ op.name \in OperationNames \cup {"init"}
   /\ executed # <<>>
   /\ \A i \in 1..Len(executed) : executed[i].code = 0) => commands = <<>>

\* The class [A-Za-z0-9-_./] of the branch names.
NameClass == Letters \cup Digits \cup {"-", "_", ".", "/"}

\* C18: isValidBranchName fails for every array of more than one token and
\* for every single token with a character outside [A-Za-z0-9-_./], and
\* accepts every non-empty single token of characters of the class.
C18_BranchNameValidation ==
  op.name = "isValidBranchName" =>
    /\ Len(op.arg) > 1 => result = "validation"
    /\ (Len(op.arg) = 1 /\ \E i \in 1..Len(op.arg[1]) : op.arg[1][i] \notin NameClass) =>
         result = "validation"
    /\ (/\ Len(op.arg) = 1
        /\ op.arg[1] # <<>>
        /\ \A i \in 1..Len(op.arg[1]) : op.arg[1][i] \in NameClass) => result = "ok"

C18_Witness ==
  /\ op.name = "isValidBranchName"
  /\ result = "validation"
  /\ Len(op.arg) = 2
  /\ op.arg[1] = <<"a">>
  /\ op.arg[2] = <<"Z">>

\* A decimal number without a leading zero.
DecimalNumber(s) ==
  /\ s # <<>>
  /\ \A i \in 1..Len(s) : s[i] \in Digits
  /\ (Len(s) > 1 => s[1] # "0")

\* Three decimal numbers separated by two dots.
ThreeNumbers(s) ==
  LET dots == {i \in 1..Len(s) : s[i] = "."}
  IN /\ Cardinality(dots) = 2
     /\ \E i, j \in dots :
          /\ i < j
          /\ DecimalNumber(SubSeq(s, 1, i - 1))
          /\ DecimalNumber(SubSeq(s, i + 1, j - 1))
          /\ DecimalNumber(SubSeq(s, j + 1, Len(s)))

C20_ConfigRoundTrip ==
  /\ [](op.name = "loadConfig" =>
          \A k \in ConfigKeys :
            config[k] = IF k \in op.arg[1].keys THEN op.arg[1].value[k] ELSE DefaultConfig[k])
  /\ [][/\ (op'.name = "initAgain" /\ op.name = "loadConfig") =>
            (configFile' = configFile /\ config' = config)
        /\ (op'.name = "loadConfigAgain" /\ op.name = "initAgain") =>
            config' = config]_vars

C20_Witness ==
  /\ op.name = "loadConfigAgain"
  /\ config.useStaging
  /\ config.stagingBranch = Undefined
  /\ ~config.pushBranches
  /\ config.mainBranch = TrunkName
  /\ config.prefixes = DefaultPrefixes
  /\ "stagingBranch" \notin configFile.keys

\* C21: the conflict check of a finish looks at the working tree of the
\* invocation: the merge-conflict error is raised only by an invocation whose
\* working tree already had unmerged paths, before any command is executed
\* and with the repository untouched; a finish invoked on such a tree never
\* reaches runCommands, and no merge run from the queue raises the error.
C21_ConflictCheckBeforeFlush ==
  [][/\ result' = "conflict" =>
          /\ Invoked
          /\ IsFinish(op'.name)
          /\ tree = "unmerged"
          /\ executed' = <<>>
          /\ repository' = repository
          /\ tree' = tree
     /\ (Invoked /\ op'.name \in OperationNames /\ IsFinish(op'.name) /\ tree = "unmerged") =>
          /\ phase' = "exit"
          /\ result' \notin {"ok", "debug"}
     /\ phase = "flush" => result' # "conflict"]_vars

C21_Witness ==
  /\ IsFinish(op.name)
  /\ result = "conflict"
  /\ phase = "exit"
  /\ Len(commands) = 2
  /\ commands[2].c = "merge --no-ff"
  /\ executed = <<>>

\* C22: in the queue of a finish whose checks passed there is one local
\* deletion, after every merge and every push of a merge target; it is the
\* last command without pushBranches, and with pushBranches only the remote
\* deletion follows it.
C22_DeletionLast ==
  (op.name \in OperationNames /\ IsFinish(op.name) /\ EnteredRunCommands) =>
    LET deletions == {i \in 1..Len(commands) : commands[i].c = "branch -d"}
    IN /\ Cardinality(deletions) = 1
       /\ \A d \in deletions :
            /\ \A i \in 1..Len(commands) :
                 commands[i].c \in {"merge --no-ff", "push origin", "tag -a", "checkout"} => i < d
            /\ IF config.pushBranches
                 THEN /\ d = Len(commands) - 1
                      /\ commands[Len(commands)] = GitPushDelete(commands[d].a)
                 ELSE d = Len(commands)

C22_Witness ==
  /\ IsFinish(op.name)
  /\ ~config.pushBranches
  /\ result = "ok"
  /\ Len(executed) = Len(commands)
  /\ executed[Len(executed)].command.c = "branch -d"
  /\ executed[Len(executed)].command.a \notin Branches

\* C23: when a command of the queue fails, the one message runCommands gives
\* to exitWithError is what the command wrote to its standard error if that
\* is not empty, and what it wrote to its standard output otherwise; a
\* process that did not end with a failed command has surfaced no such
\* message.
C23_StderrElseStdout ==
  IF result = "exec"
    THEN LET failed == executed[Len(executed)]
         IN /\ failed.code # 0
            /\ Len(surfaced) = 1
            /\ failed.stderr # <<>> => surfaced[1] = failed.stderr
            /\ failed.stderr = <<>> => surfaced[1] = failed.stdout
    ELSE surfaced = <<>>

C23_Witness ==
  /\ result = "exec"
  /\ Len(executed) > 1
  /\ executed[Len(executed)].command.c = "merge --no-ff"
  /\ executed[Len(executed)].stderr = <<>>
  /\ executed[Len(executed)].stdout = Out
  /\ surfaced = <<Out>>

\* C24: no step of a start, finish or switch, from its invocation to the end
\* of its process and whatever its outcome, changes the configuration of the
\* controller or the configuration file; the configuration stays the one
\* loaded from the file.
C24_ConfigUnchanged ==
  /\ [][(op'.name \in Lifecycle /\ (Invoked \/ Running)) =>
          /\ config' = config
          /\ configFile' = configFile]_vars
  /\ [](op.name \in Lifecycle => config = LoadConfig(configFile))

C24_Witness ==
  /\ IsFinish(op.name)
  /\ result = "exec"
  /\ Len(executed) > 2
  /\ config.useStaging
  /\ ~config.pushBranches
  /\ config = LoadConfig(configFile)

\* The merge targets the configuration gives a kind of branch.
ConfiguredTargets(kind) ==
  (IF kind \in {"release", "hotfix"} THEN {config.mainBranch} ELSE {})
    \cup {config.developBranch}
    \cup (IF config.useStaging THEN {config.stagingBranch} ELSE {})

\* C25: when a finish has run the local deletion of a branch, then for every
\* merge target configured for its kind the process has before that run a
\* checkout of the target and, right after it, a merge of that branch, both
\* with exit code 0.
C25_MergedBeforeDeletion ==
  (op.name \in OperationNames /\ IsFinish(op.name)) =>
    \A d \in 1..Len(executed) :
      executed[d].command.c = "branch -d" =>
        \A target \in ConfiguredTargets(KindOf(op.name)) :
          \E m \in 2..(d - 1) :
            /\ executed[m].command = GitMerge(executed[d].command.a)
            /\ executed[m].code = 0
            /\ executed[m - 1].command = GitCheckout(target)
            /\ executed[m - 1].code = 0

C25_Witness ==
  /\ op.name = "finishRelease"
  /\ config.useStaging
  /\ result = "exec"
  /\ Len(executed) = Len(commands)
  /\ executed[Len(executed)].command.c = "push origin --delete"
  /\ executed[Len(executed) - 1].command.c = "branch -d"
  /\ executed[Len(executed) - 1].code = 0

\* C26: in the queue of a finish, complete or cut short by an error, every
\* merge directly follows a checkout of one of the merge targets of the
\* kind; and when runCommands runs a merge, the branch checked out is the
\* one that checkout names and the merge leaves it checked out.
C26_MergeOnTarget ==
  /\ []((op.name \in OperationNames /\ IsFinish(op.name)) =>
          /\ MergesFollowCheckouts(commands)
          /\ \A i \in MergeIndexes(commands) :
               commands[i - 1].a \in ConfiguredTargets(KindOf(op.name)))
  /\ [][(/\ phase = "flush"
         /\ IsFinish(op.name)
         /\ commands[NextCommand].c = "merge --no-ff") =>
          /\ current = commands[NextCommand - 1].a
          /\ current' = current]_vars

C26_Witness ==
  /\ IsFinish(op.name)
  /\ result = "ok"
  /\ config.useStaging
  /\ commands[1].c = "checkout"
  /\ commands[2].c = "merge --no-ff"
  /\ current # commands[1].a
  /\ \A i \in 1..Len(executed) : executed[i].code = 0

\* C27: a start or finish that ends with a validation error, a state error
\* or the merge-conflict error ends in its invoking step, with none of its
\* queued commands executed and with the branches, the tags and the current
\* branch of the repository as they were; nothing is executed afterwards.
C27_ErrorsLeaveRepository ==
  /\ [][(/\ Invoked
         /\ op'.name \in OperationNames
         /\ result' \in ValidationErrors \cup StateErrors \cup {"conflict"}) =>
          /\ phase' = "exit"
          /\ executed' = <<>>
          /\ repository' = repository]_vars
  /\ []((/\ op.name \in OperationNames
         /\ result \in ValidationErrors \cup StateErrors \cup {"conflict"}) =>
          /\ phase = "exit"
          /\ executed = <<>>)

C27_Witness ==
  /\ IsFinish(op.name)
  /\ result = "dirty"
  /\ tree = "dirty"
  /\ Len(commands) = 2
  /\ commands[2].c = "merge --no-ff"
  /\ executed = <<>>
  /\ phase = "exit"

====
